---------------------------- MODULE Spec2Model ----------------------------
(***************************************************************************)
(* State-machine model of the ASD screening flow:                          *)
(*   ASDAssessment (session sequencer), BehavioralQuestionnaire,           *)
(*   EyeTrackingAssessment, FacialAnalysisAssessment, AssessmentResults.   *)
(*                                                                         *)
(* JavaScript numbers are modelled as exact fractions [num, den]; den = 0  *)
(* stands for NaN / undefined.  For every integer input the components can *)
(* produce, IEEE-754 evaluation of the source expressions decides each     *)
(* threshold comparison the same way as the exact fraction does.           *)
(***************************************************************************)
EXTENDS Integers, Sequences, FiniteSets, TLC

VARIABLES
    currentStage,     \* ASDAssessment: useState<AssessmentStage>('intro')
    assessmentData,   \* ASDAssessment: useState<AssessmentData>({}), keys appear when set
    progress,         \* ASDAssessment: useState(0), a percentage
    overallRisk,      \* AssessmentResults: value of calculateOverallRisk() of the last render
    currentQuestion,  \* BehavioralQuestionnaire: useState(0)
    answers,          \* BehavioralQuestionnaire: useState({}), question id -> answer
    cameraAccess,     \* mounted timed stage: 'checking' | 'granted' | 'denied'
    isRecording,      \* mounted timed stage: useState(false)
    recordingTime,    \* mounted timed stage: useState(0)
    intervalRef,      \* mounted timed stage: intervalRef.current !== null
    intervals,        \* number of live setInterval timers
    eyeMetricsRef,    \* EyeTrackingAssessment: metricsRef.current
    faceMetricsRef,   \* FacialAnalysisAssessment: metricsRef.current
    timeouts          \* pending setTimeout callbacks, oldest first

vars == <<currentStage, assessmentData, progress, overallRisk, currentQuestion,
          answers, cameraAccess, isRecording, recordingTime, intervalRef,
          intervals, eyeMetricsRef, faceMetricsRef, timeouts>>

sessionVars == <<currentStage, assessmentData, progress, overallRisk>>
questionnaireVars == <<currentQuestion, answers>>
recorderVars == <<cameraAccess, isRecording, recordingTime, intervalRef, intervals>>

---------------------------------------------------------------------------
(* Numbers *)

Frac(n, d) == [num |-> n, den |-> d]

Zero == Frac(0, 1)

NaN == Frac(0, 0)

IsNaN(x) == x.den = 0

\* a > b on numbers; every comparison with NaN is false
GT(a, b) == ~IsNaN(a) /\ ~IsNaN(b) /\ a.num * b.den > b.num * a.den

LT(a, b) == GT(b, a)

\* a and b denote the same number
EQ(a, b) == ~IsNaN(a) /\ ~IsNaN(b) /\ a.num * b.den = b.num * a.den

\* n / d on integers: 0/0 is NaN (a positive n over 0 does not occur)
Div(n, d) == IF d = 0 THEN NaN ELSE Frac(n, d)

Plus(a, b) ==
    IF IsNaN(a) \/ IsNaN(b) THEN NaN
    ELSE Frac(a.num * b.den + b.num * a.den, a.den * b.den)

\* x || 0 : NaN, undefined and 0 are falsy
OrZero(x) == IF IsNaN(x) \/ x.num = 0 THEN Zero ELSE x

RECURSIVE SumOver(_, _)
SumOver(f, S) ==
    IF S = {} THEN 0
    ELSE LET x == CHOOSE y \in S : TRUE IN f[x] + SumOver(f, S \ {x})

---------------------------------------------------------------------------
(* ASDAssessment *)

stages == <<"questionnaire", "eyeTracking", "facialAnalysis">>

StageIds == {stages[i] : i \in 1..Len(stages)}

\* stages.findIndex(stage => stage.id === s), 0-based, -1 when absent
findIndex(s) ==
    IF s \in StageIds THEN (CHOOSE i \in 1..Len(stages) : stages[i] = s) - 1 ELSE -1

\* the value updateProgress() passes to setProgress, for the currentStage it closes over
updateProgress(stage) == Frac((findIndex(stage) + 1) * 100, Len(stages))

---------------------------------------------------------------------------
(* AssessmentResults *)

\* mutant: the questionnaire score weighted twice, (2q + e + f) / 4
avgRiskWeighted(data) ==
    LET questionnaireScore ==
            IF "questionnaire" \in DOMAIN data
            THEN OrZero(Div(data["questionnaire"].totalScore,
                            data["questionnaire"].maxTotalScore))
            ELSE OrZero(NaN)
        eyeTrackingScore ==
            IF "eyeTracking" \in DOMAIN data
            THEN OrZero(data["eyeTracking"].riskScore)
            ELSE OrZero(NaN)
        facialAnalysisScore ==
            IF "facialAnalysis" \in DOMAIN data
            THEN OrZero(data["facialAnalysis"].riskScore)
            ELSE OrZero(NaN)
        sum == Plus(Plus(Plus(questionnaireScore, questionnaireScore),
                         eyeTrackingScore), facialAnalysisScore)
    IN  Frac(sum.num, sum.den * 4)

\* riskScores.reduce((sum, score) => sum + score, 0) / riskScores.length, where
\* riskScores = [questionnaire?.totalScore / questionnaire?.maxTotalScore || 0,
\*               eyeTracking?.riskScore || 0, facialAnalysis?.riskScore || 0]
avgRisk(data) ==
    LET questionnaireScore ==
            IF "questionnaire" \in DOMAIN data
            THEN OrZero(Div(data["questionnaire"].totalScore,
                            data["questionnaire"].maxTotalScore))
            ELSE OrZero(NaN)
        eyeTrackingScore ==
            IF "eyeTracking" \in DOMAIN data
            THEN OrZero(data["eyeTracking"].riskScore)
            ELSE OrZero(NaN)
        facialAnalysisScore ==
            IF "facialAnalysis" \in DOMAIN data
            THEN OrZero(data["facialAnalysis"].riskScore)
            ELSE OrZero(NaN)
        riskScores == <<questionnaireScore, eyeTrackingScore, facialAnalysisScore>>
        sum == Plus(Plus(Plus(Zero, riskScores[1]), riskScores[2]), riskScores[3])
    IN  Frac(sum.num, sum.den * Len(riskScores))

\* mutant: the thresholds taken inclusively (avgRisk >= 0.6, avgRisk >= 0.3)
calculateOverallRiskInclusive(data) ==
    IF ~LT(avgRisk(data), Frac(6, 10))
    THEN [level |-> "High", color |-> "destructive",
          description |-> "Multiple indicators suggest potential ASD characteristics"]
    ELSE IF ~LT(avgRisk(data), Frac(3, 10))
    THEN [level |-> "Medium", color |-> "warning",
          description |-> "Some indicators present, further evaluation recommended"]
    ELSE [level |-> "Low", color |-> "success",
          description |-> "Minimal indicators detected in this assessment"]

calculateOverallRisk(data) ==
    IF GT(avgRisk(data), Frac(6, 10))
    THEN [level |-> "High", color |-> "destructive",
          description |-> "Multiple indicators suggest potential ASD characteristics"]
    ELSE IF GT(avgRisk(data), Frac(3, 10))
    THEN [level |-> "Medium", color |-> "warning",
          description |-> "Some indicators present, further evaluation recommended"]
    ELSE [level |-> "Low", color |-> "success",
          description |-> "Minimal indicators detected in this assessment"]

\* overallRisk while AssessmentResults is not rendered
NotRendered == [level |-> "none"]

\* mutant: AssessmentResults rendered whatever the stage
renderCurrentStageAlways(stage, data) == calculateOverallRisk(data)

\* what renderCurrentStage shows for the stage: AssessmentResults only in 'results'
renderCurrentStage(stage, data) ==
    IF stage = "results" THEN calculateOverallRisk(data) ELSE NotRendered

---------------------------------------------------------------------------
(* Initial state of the stage components; a component is in this state     *)
(* whenever it is (re)mounted and while it is not mounted.                  *)

NoAnswer == -1

questions == 1..6

category ==
    [q \in questions |->
        CASE q \in {1, 2} -> "Social Communication"
          [] q = 3 -> "Repetitive Behaviors"
          [] q = 4 -> "Sensory Processing"
          [] q = 5 -> "Social Interaction"
          [] q = 6 -> "Communication"]

emotions == {"neutral", "happy", "sad", "surprised", "angry", "fearful"}

InitialEyeMetrics ==
    [fixationCount |-> 0, fixationSum |-> 0, saccadicMovements |-> 0,
     blinkRate |-> 0, gazeStability |-> Zero]

InitialFaceMetrics ==
    [emotionDetection |-> [e \in emotions |-> 0], facialLandmarks |-> 0,
     eyeContactFrequency |-> 0, microExpressions |-> <<>>, symmetryScore |-> Zero]

\* mutant: a component unmounts without the effect cleanup that clears its interval
MountWithoutCleanup ==
    /\ currentQuestion' = 0
    /\ answers' = [q \in questions |-> NoAnswer]
    /\ cameraAccess' = "checking"
    /\ isRecording' = FALSE
    /\ recordingTime' = 0
    /\ intervalRef' = FALSE
    /\ intervals' = intervals
    /\ eyeMetricsRef' = InitialEyeMetrics
    /\ faceMetricsRef' = InitialFaceMetrics

\* the component of the stage is mounted afresh (and the previous one unmounted:
\* its useEffect cleanup clears a live interval)
Mount ==
    /\ currentQuestion' = 0
    /\ answers' = [q \in questions |-> NoAnswer]
    /\ cameraAccess' = "checking"
    /\ isRecording' = FALSE
    /\ recordingTime' = 0
    /\ intervalRef' = FALSE
    /\ intervals' = IF intervalRef THEN intervals - 1 ELSE intervals
    /\ eyeMetricsRef' = InitialEyeMetrics
    /\ faceMetricsRef' = InitialFaceMetrics

componentVars == <<currentQuestion, answers, cameraAccess, isRecording,
                   recordingTime, intervalRef, intervals, eyeMetricsRef,
                   faceMetricsRef>>

---------------------------------------------------------------------------
(* ASDAssessment.handleStageComplete, as the closure made by a render in   *)
(* which currentStage was `stage` (the stage of the component that got it  *)
(* as onComplete).                                                         *)

\* mutant: the next stage taken one position too far (stages[currentIndex + 2])
nextStageAfterSkipping(stage) ==
    IF findIndex(stage) + 2 < Len(stages)
    THEN stages[(findIndex(stage) + 2) + 1]
    ELSE "results"

nextStageAfter(stage) ==
    IF findIndex(stage) < Len(stages) - 1
    THEN stages[(findIndex(stage) + 1) + 1]
    ELSE "results"

\* mutant: the progress computed from the index of the stage being entered
progressAfterNextStage(stage) ==
    IF findIndex(stage) < Len(stages) - 1
    THEN Frac((findIndex(stage) + 2) * 100, Len(stages))
    ELSE Frac(100, 1)

progressAfter(stage) ==
    IF findIndex(stage) < Len(stages) - 1
    THEN updateProgress(stage)
    ELSE Frac(100, 1)

\* mutant: the mapping replaced by the new entry (prev not spread)
storeResultReplacing(prev, stage, stageData) ==
    [k \in {stage} |-> stageData]

storeResult(prev, stage, stageData) ==
    [k \in DOMAIN prev \cup {stage} |-> IF k = stage THEN stageData ELSE prev[k]]

handleStageComplete(stage, stageData) ==
    /\ assessmentData' = storeResult(assessmentData, stage, stageData)
    /\ currentStage' = nextStageAfter(stage)
    /\ progress' = progressAfter(stage)
    /\ overallRisk' = renderCurrentStage(currentStage', assessmentData')
    /\ IF currentStage' # currentStage
       THEN Mount
       ELSE UNCHANGED componentVars

\* "Begin Assessment": onClick={() => setCurrentStage('questionnaire')}
BeginAssessment ==
    /\ currentStage = "intro"
    /\ currentStage' = "questionnaire"
    /\ overallRisk' = renderCurrentStage(currentStage', assessmentData)
    /\ Mount
    /\ UNCHANGED <<assessmentData, progress, timeouts>>

---------------------------------------------------------------------------
(* BehavioralQuestionnaire *)

\* the ordinal values of the four options of every question
optionValues == 0..3

\* answers[question.id] || 0
answerOrZero(ans, q) == IF ans[q] = NoAnswer THEN 0 ELSE ans[q]

categories == {category[q] : q \in questions}

\* mutant: maxScore taken as 3 whatever the number of questions of the category
categoryScoresFlatMax(ans) ==
    [c \in categories |->
        LET ofCategory == {q \in questions : category[q] = c}
            score == SumOver([q \in questions |-> answerOrZero(ans, q)], ofCategory)
        IN  [score |-> score, maxScore |-> 3,
             percentage |-> Div(score * 100, 3)]]

\* results: one entry per category, from the scores pushed for its questions
categoryScores(ans) ==
    [c \in categories |->
        LET ofCategory == {q \in questions : category[q] = c}
            score == SumOver([q \in questions |-> answerOrZero(ans, q)], ofCategory)
            maxScore == Cardinality(ofCategory) * 3
        IN  [score |-> score, maxScore |-> maxScore,
             percentage |-> Div(score * 100, maxScore)]]

\* Object.values(answers).reduce((sum, score) => sum + score, 0)
totalScoreOf(ans) ==
    SumOver(ans, {q \in questions : ans[q] # NoAnswer})

maxTotalScore == Cardinality(questions) * 3

\* mutant: the percentage (ratio * 100) compared with the ratio thresholds
questionnaireRiskLevelPercent(totalScore, maxTotal) ==
    IF GT(Div(totalScore * 100, maxTotal), Frac(6, 10)) THEN "High"
    ELSE IF GT(Div(totalScore * 100, maxTotal), Frac(3, 10)) THEN "Medium"
    ELSE "Low"

questionnaireRiskLevel(totalScore, maxTotal) ==
    IF GT(Div(totalScore, maxTotal), Frac(6, 10)) THEN "High"
    ELSE IF GT(Div(totalScore, maxTotal), Frac(3, 10)) THEN "Medium"
    ELSE "Low"

\* the object handleNext passes to onComplete
questionnaireResult(ans) ==
    [answers |-> ans,
     categoryScores |-> categoryScores(ans),
     totalScore |-> totalScoreOf(ans),
     maxTotalScore |-> maxTotalScore,
     riskLevel |-> questionnaireRiskLevel(totalScoreOf(ans), maxTotalScore)]

\* const hasAnswer = answers[current.id] !== undefined, current = questions[currentQuestion]
hasAnswer == answers[currentQuestion + 1] # NoAnswer

\* RadioGroup onValueChange of the question shown
handleAnswer(value) ==
    /\ currentStage = "questionnaire"
    /\ answers' = [answers EXCEPT ![currentQuestion + 1] = value]
    /\ UNCHANGED <<sessionVars, currentQuestion, recorderVars, eyeMetricsRef,
                   faceMetricsRef, timeouts>>

\* mutant: the Next button enabled whether or not the question is answered
handleNextAlwaysEnabled ==
    /\ currentStage = "questionnaire"
    /\ IF currentQuestion < Cardinality(questions) - 1
       THEN /\ currentQuestion' = currentQuestion + 1
            /\ UNCHANGED <<sessionVars, answers, recorderVars, eyeMetricsRef,
                           faceMetricsRef>>
       ELSE handleStageComplete("questionnaire", questionnaireResult(answers))
    /\ UNCHANGED timeouts

\* the Next button is disabled while !hasAnswer
handleNext ==
    /\ currentStage = "questionnaire"
    /\ hasAnswer
    /\ IF currentQuestion < Cardinality(questions) - 1
       THEN /\ currentQuestion' = currentQuestion + 1
            /\ UNCHANGED <<sessionVars, answers, recorderVars, eyeMetricsRef,
                           faceMetricsRef>>
       ELSE handleStageComplete("questionnaire", questionnaireResult(answers))
    /\ UNCHANGED timeouts

\* the Previous button is disabled on the first question
handlePrevious ==
    /\ currentStage = "questionnaire"
    /\ currentQuestion > 0
    /\ currentQuestion' = currentQuestion - 1
    /\ UNCHANGED <<sessionVars, answers, recorderVars, eyeMetricsRef,
                   faceMetricsRef, timeouts>>

---------------------------------------------------------------------------
(* Timers shared by the two timed stages *)

\* setInterval(..., 1000)
INTERVAL_PERIOD == 1000

\* setTimeout(..., 2000)
TIMEOUT_DELAY == 2000

\* bound: pending completion callbacks (Stop pressed again before the first one fires)
MaxPending == 2

\* A tick of an interval started after a callback was scheduled comes more than
\* (age + 1) periods after the scheduling, age being the ticks the callback has
\* already seen; the callback fires TIMEOUT_DELAY after it.
tickMayPrecedeTimeouts ==
    \A i \in 1..Len(timeouts) : (timeouts[i].age + 1) * INTERVAL_PERIOD < TIMEOUT_DELAY

agedTimeouts ==
    [i \in 1..Len(timeouts) |-> [timeouts[i] EXCEPT !.age = @ + 1]]

\* requestCameraAccess resolves: getUserMedia succeeded
cameraGranted ==
    /\ currentStage \in {"eyeTracking", "facialAnalysis"}
    /\ cameraAccess = "checking"
    /\ cameraAccess' = "granted"
    /\ UNCHANGED <<sessionVars, questionnaireVars, isRecording, recordingTime,
                   intervalRef, intervals, eyeMetricsRef, faceMetricsRef, timeouts>>

\* requestCameraAccess resolves: getUserMedia threw
cameraDenied ==
    /\ currentStage \in {"eyeTracking", "facialAnalysis"}
    /\ cameraAccess = "checking"
    /\ cameraAccess' = "denied"
    /\ UNCHANGED <<sessionVars, questionnaireVars, isRecording, recordingTime,
                   intervalRef, intervals, eyeMetricsRef, faceMetricsRef, timeouts>>

---------------------------------------------------------------------------
(* EyeTrackingAssessment *)

EYE_RECORDING_DURATION == 30

\* one call of simulateEyeTracking on the object m; the sample is what its four
\* Math.random() draws amount to
simulateEyeTracking(m, sample) ==
    [fixationCount |-> m.fixationCount + 1,
     fixationSum |-> m.fixationSum + sample.fixationTime,
     saccadicMovements |-> m.saccadicMovements + (IF sample.saccade THEN 1 ELSE 0),
     blinkRate |-> m.blinkRate + (IF sample.blink THEN 1 ELSE 0),
     gazeStability |-> sample.gazeStability]

\* mutant: the average without its || 0 (0 / 0 is delivered as NaN)
eyeAvgFixationDurationRaw(finalMetrics) ==
    Div(finalMetrics.fixationSum, finalMetrics.fixationCount)

eyeAvgFixationDuration(finalMetrics) ==
    OrZero(Div(finalMetrics.fixationSum, finalMetrics.fixationCount))

\* mutant: the rate normalised by the ticks elapsed instead of RECORDING_DURATION
eyeSaccadicRateElapsed(finalMetrics) ==
    Div(finalMetrics.saccadicMovements * 60, finalMetrics.fixationCount)

\* finalMetrics.saccadicMovements / (RECORDING_DURATION / 60)
eyeSaccadicRate(finalMetrics) ==
    Frac(finalMetrics.saccadicMovements * 60, EYE_RECORDING_DURATION)

\* (finalMetrics.blinkRate / RECORDING_DURATION) * 60
eyeBlinkRatePerMinute(finalMetrics) ==
    Frac(finalMetrics.blinkRate * 60, EYE_RECORDING_DURATION)

\* mutant: the fixation threshold taken inclusively (avgFixationDuration >= 1200)
eyeAsdIndicatorsInclusive(finalMetrics) ==
    [longFixations |-> ~LT(eyeAvgFixationDuration(finalMetrics), Frac(1200, 1)),
     lowSaccadicRate |-> LT(eyeSaccadicRate(finalMetrics), Frac(30, 1)),
     atypicalBlinking |-> \/ LT(eyeBlinkRatePerMinute(finalMetrics), Frac(10, 1))
                          \/ GT(eyeBlinkRatePerMinute(finalMetrics), Frac(25, 1)),
     poorGazeStability |-> LT(finalMetrics.gazeStability, Frac(6, 10))]

eyeAsdIndicators(finalMetrics) ==
    [longFixations |-> GT(eyeAvgFixationDuration(finalMetrics), Frac(1200, 1)),
     lowSaccadicRate |-> LT(eyeSaccadicRate(finalMetrics), Frac(30, 1)),
     atypicalBlinking |-> \/ LT(eyeBlinkRatePerMinute(finalMetrics), Frac(10, 1))
                          \/ GT(eyeBlinkRatePerMinute(finalMetrics), Frac(25, 1)),
     poorGazeStability |-> LT(finalMetrics.gazeStability, Frac(6, 10))]

\* Object.values(ind).filter(Boolean).length / Object.keys(ind).length
indicatorRatio(ind) ==
    Frac(Cardinality({k \in DOMAIN ind : ind[k]}), Cardinality(DOMAIN ind))

eyeRiskLevel(riskScore) ==
    IF GT(riskScore, Frac(6, 10)) THEN "High"
    ELSE IF GT(riskScore, Frac(3, 10)) THEN "Medium"
    ELSE "Low"

\* what stopRecording leaves behind: the setTimeout callback and the constants it
\* closes over; finalMetrics is the object metricsRef.current pointed to
eyeStopRecording(finalMetrics) ==
    [stage |-> "eyeTracking",
     avgFixationDuration |-> eyeAvgFixationDuration(finalMetrics),
     saccadicRate |-> eyeSaccadicRate(finalMetrics),
     blinkRatePerMinute |-> eyeBlinkRatePerMinute(finalMetrics),
     asdIndicators |-> eyeAsdIndicators(finalMetrics),
     riskScore |-> indicatorRatio(eyeAsdIndicators(finalMetrics)),
     finalMetrics |-> finalMetrics,
     age |-> 0]

\* the object the callback passes to onComplete when it runs
eyeResult(t) ==
    [metrics |-> [avgFixationDuration |-> t.avgFixationDuration,
                  saccadicRate |-> t.saccadicRate,
                  blinkRatePerMinute |-> t.blinkRatePerMinute,
                  gazeStability |-> t.finalMetrics.gazeStability,
                  recordingDuration |-> EYE_RECORDING_DURATION],
     indicators |-> t.asdIndicators,
     riskScore |-> t.riskScore,
     riskLevel |-> eyeRiskLevel(t.riskScore)]

\* mutant: the recording is started without a fresh metricsRef.current
eyeStartRecordingNoReset ==
    /\ currentStage = "eyeTracking"
    /\ cameraAccess = "granted"
    /\ ~isRecording
    /\ isRecording' = TRUE
    /\ recordingTime' = 0
    /\ intervalRef' = TRUE
    /\ intervals' = intervals + 1
    /\ UNCHANGED <<sessionVars, questionnaireVars, cameraAccess, eyeMetricsRef,
                   faceMetricsRef, timeouts>>

eyeStartRecording ==
    /\ currentStage = "eyeTracking"
    /\ cameraAccess = "granted"
    /\ ~isRecording
    /\ isRecording' = TRUE
    /\ recordingTime' = 0
    /\ eyeMetricsRef' = InitialEyeMetrics
    /\ intervalRef' = TRUE
    /\ intervals' = intervals + 1
    /\ UNCHANGED <<sessionVars, questionnaireVars, cameraAccess, faceMetricsRef,
                   timeouts>>

\* the Stop Recording button, shown while isRecording
eyeStopButton ==
    /\ currentStage = "eyeTracking"
    /\ cameraAccess = "granted"
    /\ isRecording
    /\ Len(timeouts) < MaxPending
    /\ isRecording' = FALSE
    /\ intervalRef' = FALSE
    /\ intervals' = IF intervalRef THEN intervals - 1 ELSE intervals
    /\ timeouts' = Append(timeouts, eyeStopRecording(eyeMetricsRef))
    /\ UNCHANGED <<sessionVars, questionnaireVars, cameraAccess, recordingTime,
                   eyeMetricsRef, faceMetricsRef>>

\* mutant: at the duration the interval is cleared and the recording flagged
\* stopped, but no completion callback is scheduled
eyeTickNoCompletion(sample, eager) ==
    /\ currentStage = "eyeTracking"
    /\ intervals > 0
    /\ tickMayPrecedeTimeouts
    /\ eyeMetricsRef' = simulateEyeTracking(eyeMetricsRef, sample)
    /\ timeouts' = agedTimeouts
    /\ IF recordingTime + 1 >= EYE_RECORDING_DURATION
       THEN /\ recordingTime' = EYE_RECORDING_DURATION
            /\ isRecording' = FALSE
            /\ intervalRef' = FALSE
            /\ intervals' = IF intervalRef THEN intervals - 1 ELSE intervals
       ELSE /\ recordingTime' = recordingTime + 1
            /\ UNCHANGED <<isRecording, intervalRef, intervals>>
    /\ UNCHANGED <<sessionVars, questionnaireVars, cameraAccess, faceMetricsRef>>

\* one run of the setInterval callback.  When the updater passed to
\* setRecordingTime reaches RECORDING_DURATION it calls stopRecording; React runs
\* the updater either at once (eager: before simulateEyeTracking) or in the next
\* render (after simulateEyeTracking).
eyeTick(sample, eager) ==
    /\ currentStage = "eyeTracking"
    /\ intervals > 0
    /\ tickMayPrecedeTimeouts
    /\ eyeMetricsRef' = simulateEyeTracking(eyeMetricsRef, sample)
    /\ IF recordingTime + 1 >= EYE_RECORDING_DURATION
       THEN /\ recordingTime' = EYE_RECORDING_DURATION
            /\ isRecording' = FALSE
            /\ intervalRef' = FALSE
            /\ intervals' = IF intervalRef THEN intervals - 1 ELSE intervals
            /\ timeouts' =
                 Append(agedTimeouts,
                        IF eager
                        THEN [eyeStopRecording(eyeMetricsRef)
                                EXCEPT !.finalMetrics = eyeMetricsRef']
                        ELSE eyeStopRecording(eyeMetricsRef'))
       ELSE /\ recordingTime' = recordingTime + 1
            /\ timeouts' = agedTimeouts
            /\ UNCHANGED <<isRecording, intervalRef, intervals>>
    /\ UNCHANGED <<sessionVars, questionnaireVars, cameraAccess, faceMetricsRef>>

---------------------------------------------------------------------------
(* FacialAnalysisAssessment *)

FACE_RECORDING_DURATION == 45

NoExpression == "none"

\* one call of simulateFacialAnalysis on the object m; sample.expression is
\* NoExpression when the micro-expression draw is not above 0.8
\* Array.prototype.includes
includes(array, x) == \E i \in 1..Len(array) : array[i] = x

\* mutant: a drawn micro-expression is pushed without the includes test
simulateFacialAnalysisPushAlways(m, sample) ==
    [emotionDetection |->
        [m.emotionDetection EXCEPT ![sample.dominantEmotion] = @ + 1],
     facialLandmarks |-> 468,
     eyeContactFrequency |-> m.eyeContactFrequency + (IF sample.eyeContact THEN 1 ELSE 0),
     microExpressions |->
        IF sample.expression # NoExpression
        THEN Append(m.microExpressions, sample.expression)
        ELSE m.microExpressions,
     symmetryScore |-> sample.symmetryScore]

simulateFacialAnalysis(m, sample) ==
    [emotionDetection |->
        [m.emotionDetection EXCEPT ![sample.dominantEmotion] = @ + 1],
     facialLandmarks |-> 468,
     eyeContactFrequency |-> m.eyeContactFrequency + (IF sample.eyeContact THEN 1 ELSE 0),
     microExpressions |->
        IF sample.expression # NoExpression
              /\ ~includes(m.microExpressions, sample.expression)
        THEN Append(m.microExpressions, sample.expression)
        ELSE m.microExpressions,
     symmetryScore |-> sample.symmetryScore]

faceTotalEmotions(finalMetrics) ==
    SumOver(finalMetrics.emotionDetection, emotions)

\* mutant: the percentage without its totalEmotions > 0 guard
faceEmotionDistributionUnguarded(finalMetrics) ==
    [e \in emotions |->
        Div(finalMetrics.emotionDetection[e] * 100, faceTotalEmotions(finalMetrics))]

\* percentage: totalEmotions > 0 ? (count / totalEmotions) * 100 : 0
faceEmotionDistribution(finalMetrics) ==
    [e \in emotions |->
        IF faceTotalEmotions(finalMetrics) > 0
        THEN Frac(finalMetrics.emotionDetection[e] * 100, faceTotalEmotions(finalMetrics))
        ELSE Zero]

\* (finalMetrics.eyeContactFrequency / RECORDING_DURATION) * 100
faceEyeContactRate(finalMetrics) ==
    Frac(finalMetrics.eyeContactFrequency * 100, FACE_RECORDING_DURATION)

\* mutant: the eye-contact threshold taken inclusively (eyeContactRate <= 40)
faceAsdIndicatorsInclusive(finalMetrics) ==
    [limitedEmotionalRange |->
        Cardinality({e \in emotions :
            GT(faceEmotionDistribution(finalMetrics)[e], Frac(10, 1))}) < 3,
     lowEyeContact |-> ~GT(faceEyeContactRate(finalMetrics), Frac(40, 1)),
     reducedMicroExpressions |-> Len(finalMetrics.microExpressions) < 2,
     facialAsymmetry |-> LT(finalMetrics.symmetryScore, Frac(8, 10)),
     neutralExpressionDominance |->
        GT(Div(finalMetrics.emotionDetection["neutral"], faceTotalEmotions(finalMetrics)),
           Frac(7, 10))]

faceAsdIndicators(finalMetrics) ==
    [limitedEmotionalRange |->
        Cardinality({e \in emotions :
            GT(faceEmotionDistribution(finalMetrics)[e], Frac(10, 1))}) < 3,
     lowEyeContact |-> LT(faceEyeContactRate(finalMetrics), Frac(40, 1)),
     reducedMicroExpressions |-> Len(finalMetrics.microExpressions) < 2,
     facialAsymmetry |-> LT(finalMetrics.symmetryScore, Frac(8, 10)),
     neutralExpressionDominance |->
        GT(Div(finalMetrics.emotionDetection["neutral"], faceTotalEmotions(finalMetrics)),
           Frac(7, 10))]

\* mutant: the High threshold taken inclusively (riskScore >= 0.6)
faceRiskLevelInclusive(riskScore) ==
    IF ~LT(riskScore, Frac(6, 10)) THEN "High"
    ELSE IF GT(riskScore, Frac(3, 10)) THEN "Medium"
    ELSE "Low"

faceRiskLevel(riskScore) ==
    IF GT(riskScore, Frac(6, 10)) THEN "High"
    ELSE IF GT(riskScore, Frac(3, 10)) THEN "Medium"
    ELSE "Low"

\* what stopRecording leaves behind: the setTimeout callback and the constants it
\* closes over; finalMetrics is the object metricsRef.current pointed to
faceStopRecording(finalMetrics) ==
    [stage |-> "facialAnalysis",
     emotionDistribution |-> faceEmotionDistribution(finalMetrics),
     eyeContactRate |-> faceEyeContactRate(finalMetrics),
     asdIndicators |-> faceAsdIndicators(finalMetrics),
     riskScore |-> indicatorRatio(faceAsdIndicators(finalMetrics)),
     finalMetrics |-> finalMetrics,
     age |-> 0]

\* the object the callback passes to onComplete when it runs
faceResult(t) ==
    [metrics |-> [emotionDistribution |-> t.emotionDistribution,
                  eyeContactRate |-> t.eyeContactRate,
                  microExpressions |-> t.finalMetrics.microExpressions,
                  facialSymmetry |-> t.finalMetrics.symmetryScore,
                  landmarksDetected |-> t.finalMetrics.facialLandmarks,
                  recordingDuration |-> FACE_RECORDING_DURATION],
     indicators |-> t.asdIndicators,
     riskScore |-> t.riskScore,
     riskLevel |-> faceRiskLevel(t.riskScore)]

\* mutant: the Start Recording button offered whatever the camera access
faceStartRecordingWithoutCamera ==
    /\ currentStage = "facialAnalysis"
    /\ ~isRecording
    /\ isRecording' = TRUE
    /\ recordingTime' = 0
    /\ faceMetricsRef' = InitialFaceMetrics
    /\ intervalRef' = TRUE
    /\ intervals' = intervals + 1
    /\ UNCHANGED <<sessionVars, questionnaireVars, cameraAccess, eyeMetricsRef,
                   timeouts>>

faceStartRecording ==
    /\ currentStage = "facialAnalysis"
    /\ cameraAccess = "granted"
    /\ ~isRecording
    /\ isRecording' = TRUE
    /\ recordingTime' = 0
    /\ faceMetricsRef' = InitialFaceMetrics
    /\ intervalRef' = TRUE
    /\ intervals' = intervals + 1
    /\ UNCHANGED <<sessionVars, questionnaireVars, cameraAccess, eyeMetricsRef,
                   timeouts>>

\* the Stop Analysis button, shown while isRecording
faceStopButton ==
    /\ currentStage = "facialAnalysis"
    /\ cameraAccess = "granted"
    /\ isRecording
    /\ Len(timeouts) < MaxPending
    /\ isRecording' = FALSE
    /\ intervalRef' = FALSE
    /\ intervals' = IF intervalRef THEN intervals - 1 ELSE intervals
    /\ timeouts' = Append(timeouts, faceStopRecording(faceMetricsRef))
    /\ UNCHANGED <<sessionVars, questionnaireVars, cameraAccess, recordingTime,
                   eyeMetricsRef, faceMetricsRef>>

\* one run of the setInterval callback (see eyeTick for eager)
faceTick(sample, eager) ==
    /\ currentStage = "facialAnalysis"
    /\ intervals > 0
    /\ tickMayPrecedeTimeouts
    /\ faceMetricsRef' = simulateFacialAnalysis(faceMetricsRef, sample)
    /\ IF recordingTime + 1 >= FACE_RECORDING_DURATION
       THEN /\ recordingTime' = FACE_RECORDING_DURATION
            /\ isRecording' = FALSE
            /\ intervalRef' = FALSE
            /\ intervals' = IF intervalRef THEN intervals - 1 ELSE intervals
            /\ timeouts' =
                 Append(agedTimeouts,
                        IF eager
                        THEN [faceStopRecording(faceMetricsRef)
                                EXCEPT !.finalMetrics = faceMetricsRef']
                        ELSE faceStopRecording(faceMetricsRef'))
       ELSE /\ recordingTime' = recordingTime + 1
            /\ timeouts' = agedTimeouts
            /\ UNCHANGED <<isRecording, intervalRef, intervals>>
    /\ UNCHANGED <<sessionVars, questionnaireVars, cameraAccess, eyeMetricsRef>>

---------------------------------------------------------------------------
(* The oldest pending setTimeout callback runs: onComplete({...}) *)

stageResult(t) ==
    IF t.stage = "eyeTracking" THEN eyeResult(t) ELSE faceResult(t)

\* mutant: the handler stores under the stage the pointer designates when the
\* callback runs, not under the stage of the render that created the handler
timeoutFiresAtPointer ==
    /\ timeouts # <<>>
    /\ currentStage \in StageIds
    /\ handleStageComplete(currentStage, stageResult(Head(timeouts)))
    /\ timeouts' = Tail(timeouts)

timeoutFires ==
    /\ timeouts # <<>>
    /\ handleStageComplete(Head(timeouts).stage, stageResult(Head(timeouts)))
    /\ timeouts' = Tail(timeouts)

---------------------------------------------------------------------------
(* Inputs: what the Math.random() draws of one tick can amount to; times in *)
(* ms within [500, 2500), gaze stability within [0.1, 0.9), symmetry within *)
(* [0.7, 1.0).                                                              *)

EyeLongFixation ==
    [fixationTime |-> 1950, saccade |-> TRUE, blink |-> TRUE,
     gazeStability |-> Frac(5, 10)]

EyeEdgeFixation ==
    [fixationTime |-> 1200, saccade |-> TRUE, blink |-> FALSE,
     gazeStability |-> Frac(6, 10)]

EyeShortFixation ==
    [fixationTime |-> 600, saccade |-> FALSE, blink |-> FALSE,
     gazeStability |-> Frac(7, 10)]

EyeSamples == {EyeLongFixation, EyeEdgeFixation, EyeShortFixation}

FaceNeutral ==
    [dominantEmotion |-> "neutral", eyeContact |-> FALSE,
     expression |-> NoExpression, symmetryScore |-> Frac(75, 100)]

FaceHappy ==
    [dominantEmotion |-> "happy", eyeContact |-> TRUE,
     expression |-> "eyebrow_raise", symmetryScore |-> Frac(8, 10)]

FaceSad ==
    [dominantEmotion |-> "sad", eyeContact |-> TRUE,
     expression |-> "smile_onset", symmetryScore |-> Frac(9, 10)]

FaceSamples == {FaceNeutral, FaceHappy, FaceSad}

\* the inputs of the whole-session specification
SessionAnswers == {1}

SessionEyeSamples == {EyeLongFixation}

SessionFaceSamples == {FaceNeutral}

---------------------------------------------------------------------------
(* The whole session, from the introduction page *)

Init ==
    /\ currentStage = "intro"
    /\ assessmentData = <<>>
    /\ progress = Zero
    /\ overallRisk = NotRendered
    /\ currentQuestion = 0
    /\ answers = [q \in questions |-> NoAnswer]
    /\ cameraAccess = "checking"
    /\ isRecording = FALSE
    /\ recordingTime = 0
    /\ intervalRef = FALSE
    /\ intervals = 0
    /\ eyeMetricsRef = InitialEyeMetrics
    /\ faceMetricsRef = InitialFaceMetrics
    /\ timeouts = <<>>

Next ==
    \/ BeginAssessment
    \/ \E value \in SessionAnswers : handleAnswer(value)
    \/ handleNext
    \/ handlePrevious
    \/ cameraGranted
    \/ cameraDenied
    \/ eyeStartRecording
    \/ eyeStopButton
    \/ \E sample \in SessionEyeSamples, eager \in BOOLEAN : eyeTick(sample, eager)
    \/ faceStartRecording
    \/ faceStopButton
    \/ \E sample \in SessionFaceSamples, eager \in BOOLEAN : faceTick(sample, eager)
    \/ timeoutFires

Spec == Init /\ [][Next]_vars

\* The session in which Stop is never pressed, with its timers running: an
\* interval that is set keeps calling its callback, and a setTimeout callback
\* that is pending is run.
NextUnattended ==
    \/ BeginAssessment
    \/ \E value \in SessionAnswers : handleAnswer(value)
    \/ handleNext
    \/ handlePrevious
    \/ cameraGranted
    \/ cameraDenied
    \/ eyeStartRecording
    \/ \E sample \in SessionEyeSamples, eager \in BOOLEAN : eyeTick(sample, eager)
    \/ faceStartRecording
    \/ \E sample \in SessionFaceSamples, eager \in BOOLEAN : faceTick(sample, eager)
    \/ timeoutFires

SpecUnattended ==
    /\ Init /\ [][NextUnattended]_vars
    /\ WF_vars(\E sample \in SessionEyeSamples, eager \in BOOLEAN : eyeTick(sample, eager))
    /\ WF_vars(\E sample \in SessionFaceSamples, eager \in BOOLEAN : faceTick(sample, eager))
    /\ WF_vars(timeoutFires)

---------------------------------------------------------------------------
(* The questionnaire alone, with every option of every question *)

InitQuestionnaire ==
    /\ currentStage = "questionnaire"
    /\ assessmentData = <<>>
    /\ progress = Zero
    /\ overallRisk = NotRendered
    /\ currentQuestion = 0
    /\ answers = [q \in questions |-> NoAnswer]
    /\ cameraAccess = "checking"
    /\ isRecording = FALSE
    /\ recordingTime = 0
    /\ intervalRef = FALSE
    /\ intervals = 0
    /\ eyeMetricsRef = InitialEyeMetrics
    /\ faceMetricsRef = InitialFaceMetrics
    /\ timeouts = <<>>

NextQuestionnaire ==
    \/ \E value \in optionValues : handleAnswer(value)
    \/ handleNext
    \/ handlePrevious

SpecQuestionnaire == InitQuestionnaire /\ [][NextQuestionnaire]_vars

---------------------------------------------------------------------------
(* A recording of a timed stage in progress, stopped by the button, and its *)
(* result delivered: the accumulator is any that the ticks can have built.  *)

\* bound: samples accumulated by the recording in progress
MaxSamples == 24

RECURSIVE eyeRepeat(_, _, _)
eyeRepeat(m, sample, n) ==
    IF n = 0 THEN m ELSE eyeRepeat(simulateEyeTracking(m, sample), sample, n - 1)

RECURSIVE eyeAccumulate(_, _, _)
eyeAccumulate(m, S, counts) ==
    IF S = {} THEN m
    ELSE LET s == CHOOSE x \in S : TRUE
         IN  eyeAccumulate(eyeRepeat(m, s, counts[s]), S \ {s}, counts)

RECURSIVE faceRepeat(_, _, _)
faceRepeat(m, sample, n) ==
    IF n = 0 THEN m ELSE faceRepeat(simulateFacialAnalysis(m, sample), sample, n - 1)

RECURSIVE faceAccumulate(_, _, _)
faceAccumulate(m, S, counts) ==
    IF S = {} THEN m
    ELSE LET s == CHOOSE x \in S : TRUE
         IN  faceAccumulate(faceRepeat(m, s, counts[s]), S \ {s}, counts)

Min(a, b) == IF a < b THEN a ELSE b

\* how many samples of each kind were drawn, at most max in all
SampleCounts(S, max) ==
    {c \in [S -> 0..max] : SumOver(c, S) <= max}

\* the accumulators after at most max ticks; the samples of kind `last` come last
EyeAccumulators(max) ==
    {eyeRepeat(eyeAccumulate(InitialEyeMetrics, EyeSamples \ {last}, c), last, c[last]) :
        c \in SampleCounts(EyeSamples, Min(max, EYE_RECORDING_DURATION - 1)),
        last \in EyeSamples}

FaceAccumulators(max) ==
    {faceRepeat(faceAccumulate(InitialFaceMetrics, FaceSamples \ {last}, c), last, c[last]) :
        c \in SampleCounts(FaceSamples, Min(max, FACE_RECORDING_DURATION - 1)),
        last \in FaceSamples}

\* the results stored by the stages before, as the session produces them:
\* every question answered 1; eye tracking stopped before its first tick
questionnaireDone == questionnaireResult([q \in questions |-> 1])

eyeTrackingDone == eyeResult(eyeStopRecording(InitialEyeMetrics))

InitClassify ==
    /\ overallRisk = NotRendered
    /\ currentQuestion = 0
    /\ answers = [q \in questions |-> NoAnswer]
    /\ cameraAccess = "granted"
    /\ isRecording = TRUE
    /\ intervalRef = TRUE
    /\ intervals = 1
    /\ timeouts = <<>>
    /\ \/ /\ currentStage = "eyeTracking"
          /\ assessmentData = [k \in {"questionnaire"} |-> questionnaireDone]
          /\ progress = updateProgress("questionnaire")
          /\ eyeMetricsRef \in EyeAccumulators(MaxSamples)
          /\ recordingTime = eyeMetricsRef.fixationCount
          /\ faceMetricsRef = InitialFaceMetrics
       \/ /\ currentStage = "facialAnalysis"
          /\ assessmentData =
               [k \in {"questionnaire", "eyeTracking"} |->
                   IF k = "questionnaire" THEN questionnaireDone ELSE eyeTrackingDone]
          /\ progress = updateProgress("eyeTracking")
          /\ eyeMetricsRef = InitialEyeMetrics
          /\ faceMetricsRef \in FaceAccumulators(MaxSamples)
          /\ recordingTime = faceTotalEmotions(faceMetricsRef)

NextClassify ==
    \/ eyeStopButton
    \/ faceStopButton
    \/ timeoutFires

SpecClassify == InitClassify /\ [][NextClassify]_vars

---------------------------------------------------------------------------
(* A recording of a timed stage one tick before its duration: the interval  *)
(* callback that reaches RECORDING_DURATION stops it, and the result is     *)
(* delivered.  The accumulator is any that the ticks so far can have built. *)

EyeAccumulatorsAt(n) == {m \in EyeAccumulators(n) : m.fixationCount = n}

FaceAccumulatorsAt(n) == {m \in FaceAccumulators(n) : faceTotalEmotions(m) = n}

InitTimeout ==
    /\ overallRisk = NotRendered
    /\ currentQuestion = 0
    /\ answers = [q \in questions |-> NoAnswer]
    /\ cameraAccess = "granted"
    /\ isRecording = TRUE
    /\ intervalRef = TRUE
    /\ intervals = 1
    /\ timeouts = <<>>
    /\ \/ /\ currentStage = "eyeTracking"
          /\ assessmentData = [k \in {"questionnaire"} |-> questionnaireDone]
          /\ progress = updateProgress("questionnaire")
          /\ recordingTime = EYE_RECORDING_DURATION - 1
          /\ eyeMetricsRef \in EyeAccumulatorsAt(recordingTime)
          /\ faceMetricsRef = InitialFaceMetrics
       \/ /\ currentStage = "facialAnalysis"
          /\ assessmentData =
               [k \in {"questionnaire", "eyeTracking"} |->
                   IF k = "questionnaire" THEN questionnaireDone ELSE eyeTrackingDone]
          /\ progress = updateProgress("eyeTracking")
          /\ recordingTime = FACE_RECORDING_DURATION - 1
          /\ eyeMetricsRef = InitialEyeMetrics
          /\ faceMetricsRef \in FaceAccumulatorsAt(recordingTime)

NextTimeout ==
    \/ \E sample \in EyeSamples, eager \in BOOLEAN : eyeTick(sample, eager)
    \/ \E sample \in FaceSamples, eager \in BOOLEAN : faceTick(sample, eager)
    \/ timeoutFires

SpecTimeout == InitTimeout /\ [][NextTimeout]_vars

---------------------------------------------------------------------------
(* The last ticks of a facial recording, with every micro-expression label *)
(* drawn, stopped by the button or by the duration, and its result delivered *)

MaxFaceTicks == 6

\* const microExpressions = ['eyebrow_raise', 'lip_compression', 'eye_squint', 'smile_onset']
microExpressions == {"eyebrow_raise", "lip_compression", "eye_squint", "smile_onset"}

FaceSurprised ==
    [dominantEmotion |-> "surprised", eyeContact |-> FALSE,
     expression |-> "lip_compression", symmetryScore |-> Frac(85, 100)]

FaceAngry ==
    [dominantEmotion |-> "angry", eyeContact |-> TRUE,
     expression |-> "eye_squint", symmetryScore |-> Frac(95, 100)]

FaceSamplingSamples == FaceSamples \cup {FaceSurprised, FaceAngry}

InitFaceSampling ==
    /\ currentStage = "facialAnalysis"
    /\ assessmentData =
         [k \in {"questionnaire", "eyeTracking"} |->
             IF k = "questionnaire" THEN questionnaireResult([q \in questions |-> 1])
             ELSE eyeResult(eyeStopRecording(InitialEyeMetrics))]
    /\ progress = updateProgress("eyeTracking")
    /\ overallRisk = NotRendered
    /\ currentQuestion = 0
    /\ answers = [q \in questions |-> NoAnswer]
    /\ cameraAccess = "granted"
    /\ isRecording = TRUE
    /\ intervalRef = TRUE
    /\ intervals = 1
    /\ timeouts = <<>>
    /\ recordingTime = FACE_RECORDING_DURATION - MaxFaceTicks
    /\ eyeMetricsRef = InitialEyeMetrics
    /\ faceMetricsRef \in {faceRepeat(InitialFaceMetrics, sample, recordingTime) :
                              sample \in {FaceNeutral, FaceHappy}}

NextFaceSampling ==
    \/ \E sample \in FaceSamplingSamples, eager \in BOOLEAN : faceTick(sample, eager)
    \/ faceStopButton
    \/ timeoutFires

SpecFaceSampling == InitFaceSampling /\ [][NextFaceSampling]_vars

---------------------------------------------------------------------------
(* AssessmentResults rendered with a data prop in which any of the three    *)
(* optional results may be absent.                                          *)

\* answers with the given total: 3 for the first questions, then the rest
answersWithTotal(total) ==
    [q \in questions |->
        IF total >= 3 * q THEN 3
        ELSE IF total > 3 * (q - 1) THEN total - 3 * (q - 1)
        ELSE 0]

CombineQuestionnaires ==
    {questionnaireResult(answersWithTotal(t)) : t \in {0, 5, 6, 9, 10, 11, 18}}

\* accumulators with 4, 3, 2 and 1 of the 4 eye indicators true
CombineEyeMetrics ==
    {eyeRepeat(InitialEyeMetrics, EyeLongFixation, 1),
     InitialEyeMetrics,
     eyeRepeat(InitialEyeMetrics, EyeShortFixation, 1),
     eyeRepeat(eyeRepeat(InitialEyeMetrics, EyeLongFixation, 5), EyeEdgeFixation, 10)}

CombineEyeResults ==
    {eyeResult(eyeStopRecording(m)) : m \in CombineEyeMetrics}

\* accumulators with 5, 4, 3 and 0 of the 5 facial indicators true
CombineFaceMetrics ==
    {faceRepeat(InitialFaceMetrics, FaceNeutral, 1),
     InitialFaceMetrics,
     faceRepeat(faceRepeat(InitialFaceMetrics, FaceNeutral, 1), FaceHappy, 1),
     faceRepeat(faceRepeat(faceRepeat(InitialFaceMetrics, FaceNeutral, 3),
                           FaceHappy, 9), FaceSad, 9)}

CombineFaceResults ==
    {faceResult(faceStopRecording(m)) : m \in CombineFaceMetrics}

resultsOf(k) ==
    IF k = "questionnaire" THEN CombineQuestionnaires
    ELSE IF k = "eyeTracking" THEN CombineEyeResults
    ELSE CombineFaceResults

CombineData ==
    UNION {{d \in [present -> UNION {resultsOf(k) : k \in present}] :
                \A k \in present : d[k] \in resultsOf(k)} :
           present \in SUBSET StageIds}

InitCombine ==
    /\ currentStage = "results"
    /\ assessmentData \in CombineData
    /\ progress = Frac(100, 1)
    /\ overallRisk = NotRendered
    /\ currentQuestion = 0
    /\ answers = [q \in questions |-> NoAnswer]
    /\ cameraAccess = "checking"
    /\ isRecording = FALSE
    /\ recordingTime = 0
    /\ intervalRef = FALSE
    /\ intervals = 0
    /\ eyeMetricsRef = InitialEyeMetrics
    /\ faceMetricsRef = InitialFaceMetrics
    /\ timeouts = <<>>

\* AssessmentResults renders: const overallRisk = calculateOverallRisk()
renderAssessmentResults ==
    /\ currentStage = "results"
    /\ overallRisk = NotRendered
    /\ overallRisk' = renderCurrentStage(currentStage, assessmentData)
    /\ UNCHANGED <<currentStage, assessmentData, progress, questionnaireVars,
                   recorderVars, eyeMetricsRef, faceMetricsRef, timeouts>>

NextCombine == renderAssessmentResults

SpecCombine == InitCombine /\ [][NextCombine]_vars

---------------------------------------------------------------------------
(* Properties *)

TimedStages == {"eyeTracking", "facialAnalysis"}

\* the number of indicator flags of a timed stage
flagCount(k) == IF k = "eyeTracking" THEN 4 ELSE 5

trueFlags(ind) == Cardinality({f \in DOMAIN ind : ind[f]})

\* the position of a stage in intro -> questionnaire -> ... -> results
stageOrder(s) ==
    CASE s = "intro" -> 0
      [] s = "questionnaire" -> 1
      [] s = "eyeTracking" -> 2
      [] s = "facialAnalysis" -> 3
      [] s = "results" -> 4

\* a step in which a pending completion callback runs
CallbackRuns == Len(timeouts') < Len(timeouts)

\* C1: in every delivered eye-tracking (4 flags) and facial-analysis (5 flags)
\* result, riskScore is (true flags)/(flags) and lies in [0,1], and riskLevel is
\* High iff score > 0.6, Medium iff 0.3 < score <= 0.6, Low iff score <= 0.3;
\* 3 of 5 facial flags give Medium, 3 of 4 eye flags give High, 1 flag gives Low.
C1_StageScoreAndLevel ==
    \A k \in DOMAIN assessmentData \cap TimedStages :
        LET d == assessmentData[k]
            n == trueFlags(d.indicators)
        IN  /\ Cardinality(DOMAIN d.indicators) = flagCount(k)
            /\ EQ(d.riskScore, Frac(n, flagCount(k)))
            /\ ~LT(d.riskScore, Zero) /\ ~GT(d.riskScore, Frac(1, 1))
            /\ d.riskLevel \in {"High", "Medium", "Low"}
            /\ d.riskLevel = "High" <=> 10 * n > 6 * flagCount(k)
            /\ d.riskLevel = "Medium" <=>
                 (10 * n > 3 * flagCount(k) /\ 10 * n <= 6 * flagCount(k))
            /\ d.riskLevel = "Low" <=> 10 * n <= 3 * flagCount(k)
            /\ (k = "facialAnalysis" /\ n = 3) => d.riskLevel = "Medium"
            /\ (k = "eyeTracking" /\ n = 3) => d.riskLevel = "High"
            /\ n = 1 => d.riskLevel = "Low"

\* a facial result with exactly 3 of 5 flags was delivered as Medium, next to an
\* eye-tracking result with 3 of 4 flags delivered as High
C1_Witness ==
    /\ currentStage = "results"
    /\ trueFlags(assessmentData["facialAnalysis"].indicators) = 3
    /\ assessmentData["facialAnalysis"].riskLevel = "Medium"
    /\ trueFlags(assessmentData["eyeTracking"].indicators) = 3
    /\ assessmentData["eyeTracking"].riskLevel = "High"

\* C2: the questionnaire's riskLevel follows totalScore/maxTotalScore with the
\* thresholds 0.6 and 0.3; with maxTotalScore = 18: High for totalScore >= 11,
\* Medium for 6..10, Low for totalScore <= 5.
C2_QuestionnaireLevel ==
    "questionnaire" \in DOMAIN assessmentData =>
        LET d == assessmentData["questionnaire"]
        IN  /\ d.maxTotalScore = 18
            /\ d.riskLevel \in {"High", "Medium", "Low"}
            /\ d.riskLevel = "High" <=> 10 * d.totalScore > 6 * d.maxTotalScore
            /\ d.riskLevel = "Medium" <=>
                 (10 * d.totalScore > 3 * d.maxTotalScore
                    /\ 10 * d.totalScore <= 6 * d.maxTotalScore)
            /\ d.riskLevel = "High" <=> d.totalScore >= 11
            /\ d.riskLevel = "Medium" <=> d.totalScore \in 6..10
            /\ d.riskLevel = "Low" <=> d.totalScore <= 5

\* the questionnaire completed with totalScore 6 of 18 and was delivered as Medium
C2_Witness ==
    /\ "questionnaire" \in DOMAIN assessmentData
    /\ assessmentData["questionnaire"].totalScore = 6
    /\ assessmentData["questionnaire"].riskLevel = "Medium"
    /\ currentStage = "eyeTracking"

\* the score of the stored result of stage k, as a number
stageScore(data, k) ==
    IF k = "questionnaire"
    THEN Frac(data[k].totalScore, data[k].maxTotalScore)
    ELSE data[k].riskScore

RECURSIVE sumOfScores(_, _)
sumOfScores(data, K) ==
    IF K = {} THEN Zero
    ELSE LET k == CHOOSE x \in K : TRUE
         IN  Plus(stageScore(data, k), sumOfScores(data, K \ {k}))

\* the arithmetic mean of the scores of the results that are present
meanOfAvailable(data) ==
    Frac(sumOfScores(data, DOMAIN data).num,
         sumOfScores(data, DOMAIN data).den * Cardinality(DOMAIN data))

\* C3: the overall score is the mean of the available stage scores only; an
\* absent stage is left out of the average and does not count as 0.
C3_MeanOfAvailable ==
    (overallRisk # NotRendered /\ DOMAIN assessmentData # {}) =>
        EQ(avgRisk(assessmentData), meanOfAvailable(assessmentData))

\* C4: the overall level follows the overall score by the thresholds 0.6 and
\* 0.3, each level with its one description; questionnaire 6/18 with eye
\* tracking 1.0 and facial analysis 1.0 gives 7/9 and High.
C4_OverallLevel ==
    overallRisk # NotRendered =>
        LET score == avgRisk(assessmentData)
        IN  /\ overallRisk.level \in {"High", "Medium", "Low"}
            /\ overallRisk.level = "High" <=> GT(score, Frac(6, 10))
            /\ overallRisk.level = "Medium" <=>
                 (GT(score, Frac(3, 10)) /\ ~GT(score, Frac(6, 10)))
            /\ overallRisk.level = "Low" <=> ~GT(score, Frac(3, 10))
            /\ overallRisk.level = "High" =>
                 overallRisk.description =
                   "Multiple indicators suggest potential ASD characteristics"
            /\ overallRisk.level = "Medium" =>
                 overallRisk.description =
                   "Some indicators present, further evaluation recommended"
            /\ overallRisk.level = "Low" =>
                 overallRisk.description =
                   "Minimal indicators detected in this assessment"
            /\ (/\ DOMAIN assessmentData = StageIds
                /\ assessmentData["questionnaire"].totalScore = 6
                /\ EQ(assessmentData["eyeTracking"].riskScore, Frac(1, 1))
                /\ EQ(assessmentData["facialAnalysis"].riskScore, Frac(1, 1)))
               => (EQ(score, Frac(7, 9)) /\ overallRisk.level = "High")
            /\ DOMAIN assessmentData = StageIds =>
                 EQ(score, meanOfAvailable(assessmentData))

\* the results view rendered for questionnaire 6/18, eye 1.0, facial 1.0: High
C4_Witness ==
    /\ overallRisk # NotRendered
    /\ DOMAIN assessmentData = StageIds
    /\ assessmentData["questionnaire"].totalScore = 6
    /\ EQ(assessmentData["eyeTracking"].riskScore, Frac(1, 1))
    /\ EQ(assessmentData["facialAnalysis"].riskScore, Frac(1, 1))
    /\ overallRisk.level = "High"

\* C5: a completion event whose stage is not the one the pointer designates is
\* rejected: the result mapping and the pointer stay as they are.
C5_RejectsOutOfOrder ==
    [][(CallbackRuns /\ Head(timeouts).stage # currentStage)
          => (assessmentData' = assessmentData /\ currentStage' = currentStage)]_vars

\* C6: the result mapping is written once per stage kind: a stored result is
\* never overwritten or changed afterwards.
C6_WrittenOnce ==
    [][\A k \in DOMAIN assessmentData :
          k \in DOMAIN assessmentData' /\ assessmentData'[k] = assessmentData[k]]_vars

\* C7: the pointer only ever moves to the next position of
\* intro -> questionnaire -> eyeTracking -> facialAnalysis -> results: never
\* backward, never past a stage, never out of results, late callbacks included;
\* the callback of the stage the pointer designates moves it by one position.
C7_PointerOrder ==
    [][/\ currentStage' # currentStage
             => stageOrder(currentStage') = stageOrder(currentStage) + 1
       /\ (CallbackRuns /\ Head(timeouts).stage = currentStage)
             => stageOrder(currentStage') = stageOrder(currentStage) + 1]_vars

\* the session is in facialAnalysis while a callback made by the eye-tracking
\* stage is still pending
C7_Witness ==
    /\ currentStage = "facialAnalysis"
    /\ "eyeTracking" \in DOMAIN assessmentData
    /\ timeouts # <<>>
    /\ Head(timeouts).stage = "eyeTracking"

\* C8: a completion event handled while the pointer is at stage s stores the
\* delivered result under key s, leaves the other keys alone and moves the
\* pointer to the stage after s, or to results after facialAnalysis.
C8_StoresUnderPointer ==
    [][CallbackRuns =>
          /\ assessmentData' =
               storeResult(assessmentData, currentStage, stageResult(Head(timeouts)))
          /\ currentStage' = nextStageAfter(currentStage)]_vars

\* C9: in a stage, progress is (index of the stage + 1)/(number of stages):
\* 1/3, 2/3, 3/3 of 100%, always above 0.
C9_ProgressInStage ==
    currentStage \in StageIds =>
        /\ EQ(progress, Frac((findIndex(currentStage) + 1) * 100, 3))
        /\ GT(progress, Zero)

\* C10: the session is in results exactly when all three stages have a stored
\* result; the overall result is computed only there, never from no results.
C10_ResultsWhenComplete ==
    /\ currentStage = "results" <=> DOMAIN assessmentData = StageIds
    /\ overallRisk # NotRendered <=> currentStage = "results"
    /\ overallRisk # NotRendered => DOMAIN assessmentData # {}

\* the results state with the overall result computed from three stored results
C10_Witness ==
    /\ currentStage = "results"
    /\ overallRisk # NotRendered
    /\ Cardinality(DOMAIN assessmentData) = 3

\* C11: in every delivered eye-tracking result the four flags are
\* longFixations = avgFixationDuration > 1200, lowSaccadicRate = saccadicRate < 30,
\* atypicalBlinking = blink rate < 10 or > 25, poorGazeStability = gazeStability
\* < 0.6, all strict; the summary {1500, 20, 8, 0.5} has all four flags true,
\* riskScore 1 and riskLevel High.
C11_EyeFlags ==
    "eyeTracking" \in DOMAIN assessmentData =>
        LET d == assessmentData["eyeTracking"]
            m == d.metrics
        IN  /\ DOMAIN d.indicators =
                 {"longFixations", "lowSaccadicRate", "atypicalBlinking",
                  "poorGazeStability"}
            /\ d.indicators.longFixations <=> GT(m.avgFixationDuration, Frac(1200, 1))
            /\ d.indicators.lowSaccadicRate <=> LT(m.saccadicRate, Frac(30, 1))
            /\ d.indicators.atypicalBlinking <=>
                 (LT(m.blinkRatePerMinute, Frac(10, 1))
                    \/ GT(m.blinkRatePerMinute, Frac(25, 1)))
            /\ d.indicators.poorGazeStability <=> LT(m.gazeStability, Frac(6, 10))
            /\ (/\ EQ(m.avgFixationDuration, Frac(1500, 1))
                /\ EQ(m.saccadicRate, Frac(20, 1))
                /\ EQ(m.blinkRatePerMinute, Frac(8, 1))
                /\ EQ(m.gazeStability, Frac(5, 10)))
               => (/\ \A f \in DOMAIN d.indicators : d.indicators[f]
                   /\ EQ(d.riskScore, Frac(1, 1))
                   /\ d.riskLevel = "High")

\* the eye-tracking result for the summary {1500, 20, 8, 0.5} was delivered as High
C11_Witness ==
    /\ "eyeTracking" \in DOMAIN assessmentData
    /\ currentStage = "facialAnalysis"
    /\ EQ(assessmentData["eyeTracking"].metrics.avgFixationDuration, Frac(1500, 1))
    /\ EQ(assessmentData["eyeTracking"].metrics.saccadicRate, Frac(20, 1))
    /\ EQ(assessmentData["eyeTracking"].metrics.blinkRatePerMinute, Frac(8, 1))
    /\ EQ(assessmentData["eyeTracking"].metrics.gazeStability, Frac(5, 10))
    /\ assessmentData["eyeTracking"].riskLevel = "High"

\* C12: in every delivered facial-analysis result all five flags are present and
\* limitedEmotionalRange = fewer than 3 of the six emotions have a share above
\* 10%, lowEyeContact = eyeContactRate < 40, reducedMicroExpressions = fewer than
\* 2 distinct micro-expressions, facialAsymmetry = symmetry < 0.8, and neutral
\* dominance = neutral share above 0.7 of the tally, false for an empty tally.
C12_FaceFlags ==
    "facialAnalysis" \in DOMAIN assessmentData =>
        LET d == assessmentData["facialAnalysis"]
            m == d.metrics
        IN  /\ DOMAIN d.indicators =
                 {"limitedEmotionalRange", "lowEyeContact", "reducedMicroExpressions",
                  "facialAsymmetry", "neutralExpressionDominance"}
            /\ DOMAIN m.emotionDistribution = emotions
            /\ d.indicators.limitedEmotionalRange <=>
                 Cardinality({e \in emotions :
                     GT(m.emotionDistribution[e], Frac(10, 1))}) < 3
            /\ d.indicators.lowEyeContact <=> LT(m.eyeContactRate, Frac(40, 1))
            /\ d.indicators.reducedMicroExpressions <=>
                 Len(m.microExpressions) < 2
            /\ d.indicators.facialAsymmetry <=> LT(m.facialSymmetry, Frac(8, 10))
            /\ d.indicators.neutralExpressionDominance <=>
                 GT(m.emotionDistribution["neutral"], Frac(70, 1))
            /\ (\A e \in emotions : EQ(m.emotionDistribution[e], Zero))
                 => ~d.indicators.neutralExpressionDominance

\* a facial result with an empty emotion tally was delivered, neutral dominance
\* false and the other four flags true
C12_Witness ==
    /\ "facialAnalysis" \in DOMAIN assessmentData
    /\ currentStage = "results"
    /\ \A e \in emotions :
          EQ(assessmentData["facialAnalysis"].metrics.emotionDistribution[e], Zero)
    /\ ~assessmentData["facialAnalysis"].indicators.neutralExpressionDominance
    /\ assessmentData["facialAnalysis"].indicators.limitedEmotionalRange
    /\ assessmentData["facialAnalysis"].indicators.lowEyeContact

\* C13: a recording stopped before its first tick delivers, in both timed
\* stages, a summary whose rates, counts and ratios are all 0, and that summary
\* is classified Low.  (A recording with a tick has gazeStability >= 0.1 and
\* symmetry >= 0.7, so a delivered 0 there marks the empty recording.)
C13_EmptyRecordingLow ==
    /\ ("eyeTracking" \in DOMAIN assessmentData
          /\ EQ(assessmentData["eyeTracking"].metrics.gazeStability, Zero))
         => LET d == assessmentData["eyeTracking"]
            IN  /\ EQ(d.metrics.avgFixationDuration, Zero)
                /\ EQ(d.metrics.saccadicRate, Zero)
                /\ EQ(d.metrics.blinkRatePerMinute, Zero)
                /\ d.riskLevel = "Low"
    /\ ("facialAnalysis" \in DOMAIN assessmentData
          /\ EQ(assessmentData["facialAnalysis"].metrics.facialSymmetry, Zero))
         => LET d == assessmentData["facialAnalysis"]
            IN  /\ \A e \in emotions : EQ(d.metrics.emotionDistribution[e], Zero)
                /\ EQ(d.metrics.eyeContactRate, Zero)
                /\ d.metrics.microExpressions = <<>>
                /\ d.riskLevel = "Low"

\* the data in which the three stages hold the scores sq, se and sf
scoreData(sq, se, sf) ==
    [k \in StageIds |->
        IF k = "questionnaire" THEN [totalScore |-> sq.num, maxTotalScore |-> sq.den]
        ELSE IF k = "eyeTracking" THEN [riskScore |-> se]
        ELSE [riskScore |-> sf]]

Permutations3 ==
    {<<1, 2, 3>>, <<1, 3, 2>>, <<2, 1, 3>>, <<2, 3, 1>>, <<3, 1, 2>>, <<3, 2, 1>>}

AggregationRuns == Len(timeouts') > Len(timeouts)

\* the accumulator a pending callback holds is still the one that was aggregated
AccumulatorAsAggregated(t) ==
    IF t.stage = "eyeTracking"
    THEN eyeStopRecording(t.finalMetrics) = [t EXCEPT !.age = 0]
    ELSE faceStopRecording(t.finalMetrics) = [t EXCEPT !.age = 0]

\* C15: stopRecording runs once per timed stage, and no sample is applied to the
\* accumulator it aggregated: not by the simulate call of the tick that reached
\* the duration, nor by any later tick.
C15_AggregatedOnce ==
    [][/\ AggregationRuns =>
             /\ currentStage \notin DOMAIN assessmentData
             /\ \A i \in 1..Len(timeouts) : timeouts[i].stage # currentStage
       /\ \A i \in 1..Len(timeouts') : AccumulatorAsAggregated(timeouts'[i])]_vars

\* C16: the summary delivered in a result is the one its flags were computed
\* from: in a delivered eye-tracking result poorGazeStability is
\* (metrics.gazeStability < 0.6); in a delivered facial result
\* reducedMicroExpressions is (fewer than 2 metrics.microExpressions) and
\* facialAsymmetry is (metrics.facialSymmetry < 0.8).
C16_SummaryAsClassified ==
    /\ "eyeTracking" \in DOMAIN assessmentData =>
          LET d == assessmentData["eyeTracking"]
          IN  d.indicators.poorGazeStability <=> LT(d.metrics.gazeStability, Frac(6, 10))
    /\ "facialAnalysis" \in DOMAIN assessmentData =>
          LET d == assessmentData["facialAnalysis"]
          IN  /\ d.indicators.reducedMicroExpressions <=>
                   Len(d.metrics.microExpressions) < 2
              /\ d.indicators.facialAsymmetry <=>
                   LT(d.metrics.facialSymmetry, Frac(8, 10))

\* C17: with the timers running, a recording that was started completes its
\* stage without Stop: the recording never outlasts its 30 (eye tracking) or 45
\* (facial analysis) ticks, a result of the stage is delivered and the session
\* is moved to the next stage.
C17_CompletesByTimeout ==
    /\ [](isRecording =>
            recordingTime < (IF currentStage = "eyeTracking"
                             THEN EYE_RECORDING_DURATION
                             ELSE FACE_RECORDING_DURATION))
    /\ (currentStage = "eyeTracking" /\ isRecording)
         ~> (currentStage = "facialAnalysis" /\ "eyeTracking" \in DOMAIN assessmentData)
    /\ (currentStage = "facialAnalysis" /\ isRecording)
         ~> (currentStage = "results" /\ "facialAnalysis" \in DOMAIN assessmentData)

\* the session is in facialAnalysis with the eye-tracking result of a recording
\* that ran all its 30 ticks (30 saccades: 60 per minute) and was never stopped
\* by the button
C17_Witness ==
    /\ currentStage = "facialAnalysis"
    /\ "eyeTracking" \in DOMAIN assessmentData
    /\ EQ(assessmentData["eyeTracking"].metrics.saccadicRate, Frac(60, 1))

\* a number in [0, 1]
IsRatio(x) == ~IsNaN(x) /\ ~LT(x, Zero) /\ ~GT(x, Frac(1, 1))

RiskLevels == {"Low", "Medium", "High"}

C19_RatesByDuration ==
    [][AggregationRuns =>
          LET t == timeouts'[Len(timeouts')]
          IN  IF t.stage = "eyeTracking"
              THEN \E m \in {eyeMetricsRef, eyeMetricsRef'} :
                      /\ EQ(t.saccadicRate, Frac(m.saccadicMovements * 2, 1))
                      /\ EQ(t.blinkRatePerMinute, Frac(m.blinkRate * 60, 30))
              ELSE \E m \in {faceMetricsRef, faceMetricsRef'} :
                      EQ(t.eyeContactRate, Frac(m.eyeContactFrequency * 100, 45))]_vars

\* a recording stopped after 10 ticks with 10 saccades and 4 blinks: 20 saccades
\* and 8 blinks per minute
C19_Witness ==
    /\ timeouts # <<>>
    /\ Head(timeouts).stage = "eyeTracking"
    /\ Head(timeouts).finalMetrics.fixationCount = 10
    /\ Head(timeouts).finalMetrics.saccadicMovements = 10
    /\ Head(timeouts).finalMetrics.blinkRate = 4
    /\ EQ(Head(timeouts).saccadicRate, Frac(20, 1))
    /\ EQ(Head(timeouts).blinkRatePerMinute, Frac(8, 1))

\* the tallies of the six emotion labels, added up
tallyTotal(tally) == SumOver(tally, DOMAIN tally)

\* the shares are the percentages of the tally: each is count / total * 100, and
\* they add up to 100 (taken times the total, to stay within the integers)
IsDistributionOf(dist, tally) ==
    LET total == tallyTotal(tally)
        timesTotal == [e \in emotions |-> (dist[e].num * total) \div dist[e].den]
    IN  /\ \A e \in emotions :
              /\ EQ(dist[e], Frac(tally[e] * 100, total))
              /\ (dist[e].num * total) % dist[e].den = 0
        /\ SumOver(timesTotal, emotions) = 100 * total

\* C20: the emotion distribution has a percentage for each of the six labels;
\* with a positive total tally each is count / total * 100 and the six add up to
\* 100; with an empty tally all six are 0 and nothing is divided by zero.
C20_EmotionDistribution ==
    [][(AggregationRuns /\ timeouts'[Len(timeouts')].stage = "facialAnalysis") =>
          LET dist == timeouts'[Len(timeouts')].emotionDistribution
          IN  /\ DOMAIN dist = emotions
              /\ Cardinality(emotions) = 6
              /\ \E m \in {faceMetricsRef, faceMetricsRef'} :
                    IF tallyTotal(m.emotionDetection) > 0
                    THEN IsDistributionOf(dist, m.emotionDetection)
                    ELSE \A e \in emotions : dist[e] = Zero]_vars

\* a facial recording aggregated with the tally neutral 3, happy 9, sad 9: the
\* shares are 100/7, 300/7 and 300/7 percent
C20_Witness ==
    /\ timeouts # <<>>
    /\ Head(timeouts).stage = "facialAnalysis"
    /\ Head(timeouts).finalMetrics.emotionDetection["neutral"] = 3
    /\ Head(timeouts).finalMetrics.emotionDetection["happy"] = 9
    /\ Head(timeouts).finalMetrics.emotionDetection["sad"] = 9
    /\ EQ(Head(timeouts).emotionDistribution["neutral"], Frac(100, 7))
    /\ EQ(Head(timeouts).emotionDistribution["happy"], Frac(300, 7))
    /\ EQ(Head(timeouts).emotionDistribution["fearful"], Zero)

\* C21: in the delivered questionnaire result every category has score = the sum
\* of the answers (0..3) of its questions, maxScore = 3 * (its number of
\* questions) > 0, percentage = score / maxScore * 100 and 0 <= score <=
\* maxScore; maxTotalScore is 3 * 6 = 18.
C21_CategoryScores ==
    "questionnaire" \in DOMAIN assessmentData =>
        LET d == assessmentData["questionnaire"]
        IN  /\ d.maxTotalScore = 18
            /\ d.maxTotalScore = 3 * Cardinality(questions)
            /\ DOMAIN d.categoryScores = {category[q] : q \in questions}
            /\ \A c \in DOMAIN d.categoryScores :
                  LET r == d.categoryScores[c]
                      qs == {q \in questions : category[q] = c}
                  IN  /\ \A q \in qs : d.answers[q] \in 0..3
                      /\ r.score = SumOver(d.answers, qs)
                      /\ r.maxScore = 3 * Cardinality(qs)
                      /\ r.maxScore > 0
                      /\ EQ(r.percentage, Frac(r.score * 100, r.maxScore))
                      /\ 0 <= r.score /\ r.score <= r.maxScore

\* the questionnaire completed with the answers 3 and 2 to the two Social
\* Communication questions: score 5 of 6
C21_Witness ==
    /\ "questionnaire" \in DOMAIN assessmentData
    /\ assessmentData["questionnaire"].answers[1] = 3
    /\ assessmentData["questionnaire"].answers[2] = 2
    /\ assessmentData["questionnaire"].categoryScores["Social Communication"].score = 5
    /\ assessmentData["questionnaire"].categoryScores["Social Communication"].maxScore = 6

\* a step in which startRecording runs
RecordingStarts == ~isRecording /\ isRecording'

\* the number of samples an accumulator holds
eyeSampleCount(m) == m.fixationCount

faceSampleCount(m) == SumOver(m.emotionDetection, DOMAIN m.emotionDetection)

\* C22: the accumulator is reset at every recording start (all tallies 0, all
\* lists empty) and holds the samples of the current attempt only, and what an
\* earlier attempt aggregated is not altered by a later attempt.
C22_AccumulatorPerAttempt ==
    [][/\ (RecordingStarts /\ currentStage = "eyeTracking") =>
             /\ eyeMetricsRef'.fixationCount = 0 /\ eyeMetricsRef'.fixationSum = 0
             /\ eyeMetricsRef'.saccadicMovements = 0 /\ eyeMetricsRef'.blinkRate = 0
       /\ (RecordingStarts /\ currentStage = "facialAnalysis") =>
             /\ \A e \in emotions : faceMetricsRef'.emotionDetection[e] = 0
             /\ faceMetricsRef'.eyeContactFrequency = 0
             /\ faceMetricsRef'.microExpressions = <<>>
       /\ (isRecording' /\ currentStage' = "eyeTracking") =>
             eyeSampleCount(eyeMetricsRef') = recordingTime'
       /\ (isRecording' /\ currentStage' = "facialAnalysis") =>
             faceSampleCount(faceMetricsRef') = recordingTime'
       /\ RecordingStarts =>
             /\ Len(timeouts') = Len(timeouts)
             /\ \A i \in 1..Len(timeouts) : timeouts'[i] = timeouts[i]
       /\ (~CallbackRuns /\ ~AggregationRuns) =>
             \A i \in 1..Len(timeouts) :
                 [timeouts'[i] EXCEPT !.age = 0] = [timeouts[i] EXCEPT !.age = 0]]_vars

\* a second attempt with one sample is recording while the callback of the first
\* attempt, aggregated from two samples, is pending
C22_Witness ==
    /\ currentStage = "eyeTracking"
    /\ isRecording
    /\ eyeSampleCount(eyeMetricsRef) = 1
    /\ timeouts # <<>>
    /\ eyeSampleCount(Head(timeouts).finalMetrics) = 2
    /\ EQ(Head(timeouts).saccadicRate, Frac(4, 1))

\* C23: whenever the session computes the overall result, all three stage
\* results are present, so the sum of the three terms over the constant 3 is the
\* arithmetic mean of the available stage scores.
C23_MeanInSession ==
    overallRisk # NotRendered =>
        /\ DOMAIN assessmentData = StageIds
        /\ Cardinality(DOMAIN assessmentData) = 3
        /\ EQ(avgRisk(assessmentData), meanOfAvailable(assessmentData))
        /\ overallRisk = calculateOverallRisk(assessmentData)

\* the results view computed from questionnaire 6/18, an eye-tracking score 3/4
\* and a facial score 4/5: the mean is 113/180
C23_Witness ==
    /\ currentStage = "results"
    /\ overallRisk # NotRendered
    /\ assessmentData["questionnaire"].totalScore = 6
    /\ EQ(assessmentData["eyeTracking"].riskScore, Frac(3, 4))
    /\ EQ(assessmentData["facialAnalysis"].riskScore, Frac(4, 5))
    /\ EQ(avgRisk(assessmentData), Frac(113, 180))

EyeFlagNames ==
    {"longFixations", "lowSaccadicRate", "atypicalBlinking", "poorGazeStability"}

FaceFlagNames ==
    {"limitedEmotionalRange", "lowEyeContact", "reducedMicroExpressions",
     "facialAsymmetry", "neutralExpressionDominance"}

\* C24: a result stored under key k is one that stage k's component produced: a
\* questionnaire result under questionnaire, an eye-tracking result (its four
\* flags, its fixation metrics) under eyeTracking, a facial result (its five
\* flags, its emotion distribution) under facialAnalysis; and a completion
\* callback writes no key but that of the stage that scheduled it.
C24_StoredUnderOwnKey ==
    [][/\ "questionnaire" \in DOMAIN assessmentData' =>
             {"answers", "totalScore"} \subseteq DOMAIN assessmentData'["questionnaire"]
       /\ "eyeTracking" \in DOMAIN assessmentData' =>
             /\ "indicators" \in DOMAIN assessmentData'["eyeTracking"]
             /\ DOMAIN assessmentData'["eyeTracking"].indicators = EyeFlagNames
             /\ "avgFixationDuration" \in DOMAIN assessmentData'["eyeTracking"].metrics
       /\ "facialAnalysis" \in DOMAIN assessmentData' =>
             /\ "indicators" \in DOMAIN assessmentData'["facialAnalysis"]
             /\ DOMAIN assessmentData'["facialAnalysis"].indicators = FaceFlagNames
             /\ "emotionDistribution" \in DOMAIN assessmentData'["facialAnalysis"].metrics
       /\ CallbackRuns =>
             \A k \in DOMAIN assessmentData' :
                 (k # Head(timeouts).stage) =>
                     (k \in DOMAIN assessmentData /\ assessmentData'[k] = assessmentData[k])]_vars

\* the facial-analysis component is recording while a callback scheduled by the
\* eye-tracking component is still pending
C24_Witness ==
    /\ currentStage = "facialAnalysis"
    /\ isRecording
    /\ timeouts # <<>>
    /\ Head(timeouts).stage = "eyeTracking"
    /\ "facialAnalysis" \notin DOMAIN assessmentData

\* a step in which the interval callback reaches the duration and stops the recording
DurationTimeout ==
    /\ AggregationRuns
    /\ isRecording /\ ~isRecording'
    /\ recordingTime' = (IF currentStage = "eyeTracking"
                         THEN EYE_RECORDING_DURATION
                         ELSE FACE_RECORDING_DURATION)
    /\ recordingTime' > recordingTime

\* C25: a recording ended by the duration timeout is aggregated from exactly
\* RECORDING_DURATION samples, the one of the final tick included: 30 fixation
\* samples for eye tracking, an emotion tally of 45 for facial analysis.
C25_FinalSampleAggregated ==
    [][DurationTimeout =>
          LET t == timeouts'[Len(timeouts')]
          IN  IF t.stage = "eyeTracking"
              THEN /\ eyeSampleCount(eyeMetricsRef') = 30
                   /\ EQ(t.avgFixationDuration, Frac(eyeMetricsRef'.fixationSum, 30))
                   /\ EQ(t.saccadicRate, Frac(eyeMetricsRef'.saccadicMovements * 2, 1))
                   /\ EQ(t.blinkRatePerMinute, Frac(eyeMetricsRef'.blinkRate * 2, 1))
              ELSE /\ faceSampleCount(faceMetricsRef') = 45
                   /\ \A e \in emotions :
                         EQ(t.emotionDistribution[e],
                            Frac(faceMetricsRef'.emotionDetection[e] * 100, 45))
                   /\ EQ(t.eyeContactRate,
                         Frac(faceMetricsRef'.eyeContactFrequency * 100, 45))]_vars

\* the questionnaire's completion event has been delivered
questionnaireCompleted == "questionnaire" \in DOMAIN assessmentData

\* a step that delivers the questionnaire's completion event
QuestionnaireCompletes == ~questionnaireCompleted /\ questionnaireCompleted'

\* the question index is in range and every question before the one shown is answered
QuestionnairePosition ==
    /\ currentQuestion \in 0 .. Cardinality(questions) - 1
    /\ \A q \in questions : q <= currentQuestion => answers[q] # NoAnswer

\* the completed result: all six answered, total = sum of the category scores, in 0..18
QuestionnaireCompletion ==
    questionnaireCompleted =>
        LET r == assessmentData["questionnaire"]
        IN  /\ \A q \in questions : r.answers[q] \in optionValues
            /\ r.totalScore =
                   SumOver([c \in categories |-> r.categoryScores[c].score], categories)
            /\ r.totalScore \in 0 .. 18

\* C26: the questionnaire completes only from the last question with all six
\* questions answered; the question index stays in 0..5, Next acts only when
\* the question shown has an answer, Previous removes no answer; at
\* completion totalScore is the sum of the category scores and is in 0..18.
C26_CompletesFullyAnswered ==
    [][/\ QuestionnaireCompletion'
       /\ (currentQuestion' > currentQuestion \/ QuestionnaireCompletes) => hasAnswer
       /\ QuestionnaireCompletes =>
             /\ currentQuestion = Cardinality(questions) - 1
             /\ \A q \in questions : answers[q] # NoAnswer
             /\ assessmentData'["questionnaire"].answers = answers
       /\ currentStage' = "questionnaire" =>
             /\ QuestionnairePosition'
             /\ \A q \in questions : answers[q] # NoAnswer => answers'[q] # NoAnswer]_vars

\* completed after the answers 0,1,2,3,0,1 (total 7)
C26_Witness ==
    /\ questionnaireCompleted
    /\ assessmentData["questionnaire"].answers = <<0, 1, 2, 3, 0, 1>>
    /\ assessmentData["questionnaire"].totalScore = 7

\* C27: in each timed stage exactly one sampling interval is live while
\* isRecording is true and none otherwise: a start leaves no earlier interval
\* running, a stop (button or timeout) clears it, and none survives the
\* unmount of the stage component.
C27_OneIntervalWhileRecording ==
    /\ intervals = (IF isRecording THEN 1 ELSE 0)
    /\ isRecording <=> intervalRef
    /\ isRecording => currentStage \in TimedStages

\* a recording in progress while a completion callback of an earlier attempt
\* is pending: its firing unmounts the component with the interval live
C27_Witness ==
    /\ currentStage = "eyeTracking"
    /\ isRecording /\ recordingTime > 0
    /\ intervals = 1
    /\ timeouts # <<>>

\* an array without a repeated element
NoDuplicates(array) ==
    \A i, j \in 1..Len(array) : array[i] = array[j] => i = j

\* C28: in the facial accumulator the six emotion tallies sum to the number
\* of ticks sampled since the last start, eyeContactFrequency is at most that
\* number, that number is at most 45, and microExpressions holds no label
\* twice (at most 4 entries); every delivered eyeContactRate is in [0,100].
C28_FaceAccumulatorBounds ==
    /\ currentStage = "facialAnalysis" =>
          /\ tallyTotal(faceMetricsRef.emotionDetection) = recordingTime
          /\ faceMetricsRef.eyeContactFrequency \in 0 .. recordingTime
          /\ recordingTime <= 45
          /\ NoDuplicates(faceMetricsRef.microExpressions)
          /\ Len(faceMetricsRef.microExpressions) <= 4
    /\ "facialAnalysis" \in DOMAIN assessmentData =>
          LET rate == assessmentData["facialAnalysis"].metrics.eyeContactRate
          IN  /\ ~IsNaN(rate)
              /\ ~LT(rate, Zero)
              /\ ~GT(rate, Frac(100, 1))

\* 45 ticks sampled, all four labels recorded, one of them drawn more than once
C28_Witness ==
    /\ currentStage = "facialAnalysis"
    /\ recordingTime = 45
    /\ Len(faceMetricsRef.microExpressions) = 4
    /\ faceMetricsRef.emotionDetection["happy"] >= 2
    /\ faceMetricsRef.eyeContactFrequency > 0

\* the stage shows the camera-denied card: nothing of it is recording, stored or pending
DeniedStageIdle ==
    /\ currentStage \in TimedStages
    /\ ~isRecording
    /\ intervals = 0
    /\ currentStage \notin DOMAIN assessmentData
    /\ \A i \in 1..Len(timeouts) : timeouts[i].stage # currentStage
    /\ overallRisk = NotRendered

\* C29: once camera access is denied in a timed stage, no recording starts
\* and no completion event of that stage occurs: the session stays in that
\* stage with access denied, never reaches results, and the stage's entry in
\* the result mapping stays absent.
C29_DeniedIsFinal ==
    [][/\ cameraAccess' = "denied" => DeniedStageIdle'
       /\ cameraAccess = "denied" =>
             /\ cameraAccess' = "denied"
             /\ currentStage' = currentStage
             /\ DeniedStageIdle']_vars

\* access denied in the facial stage while a completion callback of the
\* eye-tracking stage is still pending
C29_Witness ==
    /\ cameraAccess = "denied"
    /\ currentStage = "facialAnalysis"
    /\ timeouts # <<>>

\* progress is 100 exactly in the results state
FullProgressInResults == EQ(progress, Frac(100, 1)) <=> currentStage = "results"

\* C30: the progress value never decreases along a behaviour, late and
\* duplicate completion callbacks included, and it is 100% exactly when the
\* session is in the results state.
C30_ProgressMonotone ==
    [][/\ ~LT(progress', progress)
       /\ ~IsNaN(progress')
       /\ FullProgressInResults
       /\ FullProgressInResults']_vars

\* the results state with a duplicate completion callback still pending
C30_Witness ==
    /\ currentStage = "results"
    /\ EQ(progress, Frac(100, 1))
    /\ timeouts # <<>>

====
